---- MODULE Spec2Model ----
\* rtnetlink message decoding of phosphor-networkd (src/src/rtnetlink.cpp):
\* gatewayFromRtm, addrFromRtm and neighFromRtm, run on byte buffers that are
\* built from bounded sets of headers and attribute records.
EXTENDS Integers, Sequences, FiniteSets, TLC

VARIABLES desc, msg, out

vars == <<desc, msg, out>>

\* ------------------------------------------------------------------ bounds
\* Largest number of attribute records in one message (a framing flaw at the
\* end of the stream counts as one record).
MaxAttrs == 3

\* --------------------------------------------------------- kernel constants
AF_INET == 2
AF_INET6 == 10
RT_TABLE_MAIN == 254
RTA_OIF == 4
RTA_GATEWAY == 5
IFA_ADDRESS == 1
IFA_FLAGS == 8
NDA_DST == 1
NDA_LLADDR == 2
\* sizeof of the fixed headers and of the values copied out of payloads
SizeofRtmsg == 12
SizeofIfaddrmsg == 8
SizeofNdmsg == 12
SizeofInt == 4
SizeofUint32 == 4
SizeofEtherAddr == 6
\* RTA_LENGTH(0): the size of struct rtattr, and RTA_ALIGNTO
RtaHdrLen == 4
RtaAlignTo == 4

\* ------------------------------------------------------------ byte helpers
LE16(n) == <<n % 256, (n \div 256) % 256>>
LE32(n) == <<n % 256, (n \div 256) % 256, (n \div 65536) % 256, (n \div 16777216) % 256>>
U16(b, off) == b[off + 1] + 256 * b[off + 2]
U32(b, off) == b[off + 1] + 256 * b[off + 2] + 65536 * b[off + 3] + 16777216 * b[off + 4]
Zeros(n) == [i \in 1..n |-> 0]
\* string_view::substr(pos) / remove_prefix(pos)
Drop(b, n) == SubSeq(b, n + 1, Len(b))
Take(b, n) == SubSeq(b, 1, n)
\* RTA_ALIGN
RtaAlign(n) == ((n + RtaAlignTo - 1) \div RtaAlignTo) * RtaAlignTo

\* ------------------------------------------------- the messages that arrive
\* A record descriptor is [type, len, val]: a payload of len bytes, the i-th
\* of which is val + i - 1, so that payloads of different val differ in every
\* byte and every prefix of a payload is told from the whole.
Payload(len, val) == [i \in 1..len |-> (val + i - 1) % 256]
EncodeRec(r) ==
    LE16(RtaHdrLen + r.len) \o LE16(r.type) \o Payload(r.len, r.val)
        \o Zeros(RtaAlign(r.len) - r.len)
RECURSIVE EncodeRecs(_)
EncodeRecs(rs) == IF rs = <<>> THEN <<>> ELSE EncodeRec(Head(rs)) \o EncodeRecs(Tail(rs))

Families == {AF_INET, AF_INET6, 17}
PayVals == {1, 2}
\* One attribute type per kind that the decoder of that kind does not know.
UnknownType(kind) == IF kind = "route" THEN 6 ELSE 3
KnownTypes(kind) ==
    IF kind = "route" THEN {RTA_OIF, RTA_GATEWAY}
    ELSE IF kind = "addr" THEN {IFA_ADDRESS, IFA_FLAGS}
    ELSE {NDA_LLADDR, NDA_DST}
\* The address-typed attribute of each kind.
AddrType(kind) ==
    IF kind = "route" THEN RTA_GATEWAY ELSE IF kind = "addr" THEN IFA_ADDRESS ELSE NDA_DST
\* The payload lengths each attribute type arrives with: the widths its
\* decoder accepts and, for each, a width it does not.
PayLens(kind, type) ==
    IF type = AddrType(kind) THEN {4, 16}
    ELSE IF kind = "neigh" /\ type = NDA_LLADDR THEN {4, 6, 16}
    ELSE IF type \in KnownTypes(kind) THEN {4, 6}
    ELSE {0, 6}
UnknownRecs(kind) ==
    {[type |-> UnknownType(kind), len |-> l, val |-> 1] : l \in PayLens(kind, UnknownType(kind))}
KnownRecs(kind) ==
    UNION {{[type |-> t, len |-> l, val |-> v] : l \in PayLens(kind, t), v \in PayVals} :
              t \in KnownTypes(kind)}
Recs(kind) == KnownRecs(kind) \cup UnknownRecs(kind)

\* The end of the attribute stream: clean, or one of the framing flaws.
\*   garbage   a remainder shorter than a record header
\*   shortlen  a record whose rta_len is smaller than the record header
\*   overrun   a record whose rta_len is larger than what is left
\*   nopad     a last record that lacks its alignment padding
FlawTails == {"garbage", "shortlen", "overrun", "nopad"}
EncodeTail(kind, tail) ==
    CASE tail = "ok" -> <<>>
      [] tail = "hdrshort" -> <<>>
      [] tail = "garbage" -> <<8, 0>>
      [] tail = "shortlen" -> LE16(RtaHdrLen - 1) \o LE16(AddrType(kind))
      [] tail = "overrun" -> LE16(RtaHdrLen + 8) \o LE16(AddrType(kind)) \o Payload(4, 1)
      [] tail = "nopad" -> LE16(RtaHdrLen + 6) \o LE16(UnknownType(kind)) \o Payload(6, 1)

RouteHdrs ==
    {[family |-> f, dst_len |-> v[1], table |-> v[2]] :
        f \in Families, v \in {<<0, RT_TABLE_MAIN>>, <<24, RT_TABLE_MAIN>>, <<0, 255>>}}
AddrHdrs ==
    {[family |-> f, prefixlen |-> v[1], flags |-> v[2], scope |-> v[3], index |-> v[4]] :
        f \in Families, v \in {<<24, 0, 0, 2>>, <<64, 128, 253, 3>>}}
NeighHdrs == {[family |-> f, ifindex |-> 3, state |-> 4] : f \in Families}
Hdrs(kind) ==
    IF kind = "route" THEN RouteHdrs ELSE IF kind = "addr" THEN AddrHdrs ELSE NeighHdrs

\* struct rtmsg, struct ifaddrmsg, struct ndmsg as the kernel lays them out
EncodeHdr(kind, h) ==
    CASE kind = "route" ->
            <<h.family, h.dst_len, 0, 0, h.table, 3, 0, 1>> \o LE32(0)
      [] kind = "addr" ->
            <<h.family, h.prefixlen, h.flags, h.scope>> \o LE32(h.index)
      [] kind = "neigh" ->
            <<h.family, 0, 0, 0>> \o LE32(h.ifindex) \o LE16(h.state) \o <<0, 1>>

Encode(d) ==
    LET full == EncodeHdr(d.kind, d.hdr) \o EncodeRecs(d.recs) \o EncodeTail(d.kind, d.tail)
    IN  IF d.tail = "hdrshort" THEN Take(full, Len(full) - 1) ELSE full

Kinds == {"route", "addr", "neigh"}
\* The ends a stream of n records may have: a framing flaw counts as a record,
\* and a message cut inside its fixed header carries no attributes.
Tails(n) ==
    {"ok"} \cup (IF n < MaxAttrs THEN FlawTails ELSE {}) \cup (IF n = 0 THEN {"hdrshort"} ELSE {})
\* --------------------------------------------------------------- netlink.hpp
Fail(err, rest) == [ok |-> FALSE, err |-> err, rest |-> rest]

\* extractRtData<T>: the fixed header is taken off the front of the buffer.
ExtractRtData(b, size) ==
    IF Len(b) < size THEN Fail("TruncatedBuffer", b)
    ELSE [ok |-> TRUE, hdr |-> Take(b, size), rest |-> Drop(b, size)]

\* extractRtAttr: one attribute record is taken off the front of the buffer.
ExtractRtAttr(b) ==
    IF Len(b) < RtaHdrLen THEN Fail("TruncatedBuffer", b)
    ELSE LET rta_len == U16(b, 0)
             rta_type == U16(b, 2)
         IN  IF rta_len < RtaHdrLen THEN Fail("TruncatedBuffer", b)
             ELSE IF rta_len > Len(b) THEN Fail("TruncatedBuffer", b)
             ELSE IF RtaAlign(rta_len) > Len(b) THEN Fail("TruncatedBuffer", b)
             ELSE [ok |-> TRUE, rta_type |-> rta_type,
                   data |-> SubSeq(b, RtaHdrLen + 1, rta_len),
                   rest |-> Drop(b, RtaAlign(rta_len))]

\* stdplus::raw::copyFromStrict<T>: the payload must be exactly sizeof(T).
CopyFromStrict(data, size) ==
    IF Len(data) = size THEN [ok |-> TRUE, bytes |-> data]
    ELSE [ok |-> FALSE, bytes |-> <<>>]

\* stdplus::raw::copyFrom<T>: the payload must be at least sizeof(T).
CopyFrom(data, size) ==
    IF Len(data) >= size THEN [ok |-> TRUE, bytes |-> Take(data, size)]
    ELSE [ok |-> FALSE, bytes |-> <<>>]

\* addrFromBuf: the payload as an InAddrAny of the given family.
AddrFromBuf(family, data) ==
    IF family = AF_INET
    THEN IF Len(data) = 4 THEN [ok |-> TRUE, addr |-> <<"V4", data>>]
         ELSE [ok |-> FALSE, err |-> "FamilyLengthMismatch"]
    ELSE IF family = AF_INET6
    THEN IF Len(data) = 16 THEN [ok |-> TRUE, addr |-> <<"V6", data>>]
         ELSE [ok |-> FALSE, err |-> "FamilyLengthMismatch"]
    ELSE [ok |-> FALSE, err |-> "UnsupportedFamily"]

\* ------------------------------------------------------------- rtnetlink.cpp
\* std::optional is a sequence of no or one element.
Nullopt == <<>>
Some(x) == <<x>>
NoVal == [none |-> TRUE]

\* What a decoder call ends in: a typed result, the route decoder's "no
\* result" (std::nullopt), or an exception. rest is the part of the buffer not
\* yet consumed when the call ended, seen the attribute records extracted.
Pending == [status |-> "pending", val |-> NoVal, err |-> "", rest |-> <<>>, seen |-> <<>>]
Result(val, st) ==
    [status |-> "result", val |-> val, err |-> "", rest |-> st.msg, seen |-> st.seen]
NoResult(rest, seen) ==
    [status |-> "none", val |-> NoVal, err |-> "", rest |-> rest, seen |-> seen]
Failure(err, rest, seen) ==
    [status |-> "fail", val |-> NoVal, err |-> err, rest |-> rest, seen |-> seen]

\* The scan loops share their shape: the state of a scan is the buffer left,
\* the records seen, the exception raised if any, and the decoder's fields.
Raise(st, err) == [st EXCEPT !.err = err]
Took(st, a) == [st EXCEPT !.msg = a.rest, !.seen = Append(@, <<a.rta_type, a.data>>)]

Sizeof(Addr) == IF Addr = "in_addr" THEN 4 ELSE 16
AddrTag(Addr) == IF Addr = "in_addr" THEN "V4" ELSE "V6"

\* ParseAttr with an ordering requirement: a gateway is taken only once the
\* interface index has been seen.
ParseAttr_GwNeedsOif(Addr, st, a) ==
    IF a.rta_type = RTA_OIF
    THEN LET c == CopyFromStrict(a.data, SizeofInt)
         IN  IF c.ok THEN [st EXCEPT !.ifIdx = Some(U32(c.bytes, 0))]
             ELSE Raise(st, "LengthMismatch")
    ELSE IF a.rta_type = RTA_GATEWAY /\ st.ifIdx # Nullopt
    THEN LET c == CopyFromStrict(a.data, Sizeof(Addr))
         IN  IF c.ok THEN [st EXCEPT !.gw = Some(<<AddrTag(Addr), c.bytes>>)]
             ELSE Raise(st, "LengthMismatch")
    ELSE st

\* ParseAttr keeping the first occurrence of an attribute, not the last.
ParseAttr_FirstWins(Addr, st, a) ==
    IF a.rta_type = RTA_OIF
    THEN LET c == CopyFromStrict(a.data, SizeofInt)
         IN  IF ~c.ok THEN Raise(st, "LengthMismatch")
             ELSE IF st.ifIdx # Nullopt THEN st
             ELSE [st EXCEPT !.ifIdx = Some(U32(c.bytes, 0))]
    ELSE IF a.rta_type = RTA_GATEWAY
    THEN LET c == CopyFromStrict(a.data, Sizeof(Addr))
         IN  IF ~c.ok THEN Raise(st, "LengthMismatch")
             ELSE IF st.gw # Nullopt THEN st
             ELSE [st EXCEPT !.gw = Some(<<AddrTag(Addr), c.bytes>>)]
    ELSE st

\* ParseAttr copying the gateway with the lenient copyFrom.
ParseAttr_LenientGw(Addr, st, a) ==
    IF a.rta_type = RTA_OIF
    THEN LET c == CopyFromStrict(a.data, SizeofInt)
         IN  IF c.ok THEN [st EXCEPT !.ifIdx = Some(U32(c.bytes, 0))]
             ELSE Raise(st, "LengthMismatch")
    ELSE IF a.rta_type = RTA_GATEWAY
    THEN LET c == CopyFrom(a.data, Sizeof(Addr))
         IN  IF c.ok THEN [st EXCEPT !.gw = Some(<<AddrTag(Addr), c.bytes>>)]
             ELSE Raise(st, "LengthMismatch")
    ELSE st

\* parse<Addr>: the switch on hdr.rta_type
ParseAttr(Addr, st, a) ==
    IF a.rta_type = RTA_OIF
    THEN LET c == CopyFromStrict(a.data, SizeofInt)
         IN  IF c.ok THEN [st EXCEPT !.ifIdx = Some(U32(c.bytes, 0))]
             ELSE Raise(st, "LengthMismatch")
    ELSE IF a.rta_type = RTA_GATEWAY
    THEN LET c == CopyFromStrict(a.data, Sizeof(Addr))
         IN  IF c.ok THEN [st EXCEPT !.gw = Some(<<AddrTag(Addr), c.bytes>>)]
             ELSE Raise(st, "LengthMismatch")
    ELSE st

\* parse<Addr>: while (!msg.empty())
RECURSIVE ParseLoop(_, _)
ParseLoop(Addr, st) ==
    IF st.err # "" \/ st.msg = <<>> THEN st
    ELSE LET a == ExtractRtAttr(st.msg)
         IN  IF ~a.ok THEN Raise(st, a.err)
             ELSE ParseLoop(Addr, ParseAttr(Addr, Took(st, a), a))

\* parse<Addr>: what is returned once the loop is over
ParseReturn(st) ==
    IF st.ifIdx # Nullopt /\ st.gw # Nullopt
    THEN Result([ifidx |-> st.ifIdx[1], gw |-> st.gw[1]], st)
    ELSE NoResult(st.msg, st.seen)

Parse(Addr, m) ==
    LET st == ParseLoop(Addr,
                  [msg |-> m, seen |-> <<>>, err |-> "", ifIdx |-> Nullopt, gw |-> Nullopt])
    IN  IF st.err # "" THEN Failure(st.err, st.msg, st.seen) ELSE ParseReturn(st)

\* The filter with "and" for "or": only a route that is neither in the main
\* table nor a default route is dropped.
NotDefaultRoute_And(rtm) == rtm[5] # RT_TABLE_MAIN /\ rtm[2] # 0

\* gatewayFromRtm: the filter on table and destination prefix length
NotDefaultRoute(rtm) == rtm[5] # RT_TABLE_MAIN \/ rtm[2] # 0

\* gatewayFromRtm: the switch on rtm.rtm_family
GatewayByFamily(rtm_family, m) ==
    IF rtm_family = AF_INET THEN Parse("in_addr", m)
    ELSE IF rtm_family = AF_INET6 THEN Parse("in6_addr", m)
    ELSE NoResult(m, <<>>)

gatewayFromRtm(m) ==
    LET x == ExtractRtData(m, SizeofRtmsg)
    IN  IF ~x.ok THEN Failure(x.err, x.rest, <<>>)
        ELSE IF NotDefaultRoute(x.hdr) THEN NoResult(x.rest, <<>>)
        ELSE GatewayByFamily(x.hdr[1], x.rest)

\* AddrAttr without the IFA_FLAGS override.
AddrAttr_NoFlags(ifa_family, st, a) ==
    IF a.rta_type = IFA_ADDRESS
    THEN LET c == AddrFromBuf(ifa_family, a.data)
         IN  IF c.ok THEN [st EXCEPT !.addr = Some(c.addr)] ELSE Raise(st, c.err)
    ELSE st

\* addrFromRtm: the body of the scan loop
AddrAttr(ifa_family, st, a) ==
    IF a.rta_type = IFA_ADDRESS
    THEN LET c == AddrFromBuf(ifa_family, a.data)
         IN  IF c.ok THEN [st EXCEPT !.addr = Some(c.addr)] ELSE Raise(st, c.err)
    ELSE IF a.rta_type = IFA_FLAGS
    THEN LET c == CopyFromStrict(a.data, SizeofUint32)
         IN  IF c.ok THEN [st EXCEPT !.flags = U32(c.bytes, 0)]
             ELSE Raise(st, "LengthMismatch")
    ELSE st

\* addrFromRtm: while (!msg.empty())
RECURSIVE AddrLoop(_, _)
AddrLoop(ifa_family, st) ==
    IF st.err # "" \/ st.msg = <<>> THEN st
    ELSE LET a == ExtractRtAttr(st.msg)
         IN  IF ~a.ok THEN Raise(st, a.err)
             ELSE AddrLoop(ifa_family, AddrAttr(ifa_family, Took(st, a), a))

\* AddrReturn without the check: a missing address is the zero address.
AddrReturn_ZeroAddr(ifa, st) ==
    Result([ifidx |-> st.ifidx, flags |-> st.flags, scope |-> st.scope,
            ifaddr |-> [addr |-> IF st.addr = Nullopt THEN <<"V4", Zeros(4)>> ELSE st.addr[1],
                        prefixlen |-> ifa[2]]], st)

\* addrFromRtm: the check for the address and the result
AddrReturn(ifa, st) ==
    IF st.addr = Nullopt THEN Failure("Missing address", st.msg, st.seen)
    ELSE Result([ifidx |-> st.ifidx, flags |-> st.flags, scope |-> st.scope,
                 ifaddr |-> [addr |-> st.addr[1], prefixlen |-> ifa[2]]], st)

addrFromRtm(m) ==
    LET x == ExtractRtData(m, SizeofIfaddrmsg)
    IN  IF ~x.ok THEN Failure(x.err, x.rest, <<>>)
        ELSE LET ifa == x.hdr
                 st == AddrLoop(ifa[1],
                           [msg |-> x.rest, seen |-> <<>>, err |-> "",
                            ifidx |-> U32(ifa, 4), flags |-> ifa[3], scope |-> ifa[4],
                            addr |-> Nullopt])
             IN  IF st.err # "" THEN Failure(st.err, st.msg, st.seen)
                 ELSE AddrReturn(ifa, st)

\* NeighAttr copying the link-layer address with the exact copyFromStrict.
NeighAttr_StrictMac(ndm_family, st, a) ==
    IF a.rta_type = NDA_LLADDR
    THEN LET c == CopyFromStrict(a.data, SizeofEtherAddr)
         IN  IF c.ok THEN [st EXCEPT !.mac = Some(c.bytes)] ELSE Raise(st, "TooShort")
    ELSE IF a.rta_type = NDA_DST
    THEN LET c == AddrFromBuf(ndm_family, a.data)
         IN  IF c.ok THEN [st EXCEPT !.addr = Some(c.addr)] ELSE Raise(st, c.err)
    ELSE st

\* NeighAttr rejecting an attribute type it does not know.
NeighAttr_RejectUnknown(ndm_family, st, a) ==
    IF a.rta_type = NDA_LLADDR
    THEN LET c == CopyFrom(a.data, SizeofEtherAddr)
         IN  IF c.ok THEN [st EXCEPT !.mac = Some(c.bytes)] ELSE Raise(st, "TooShort")
    ELSE IF a.rta_type = NDA_DST
    THEN LET c == AddrFromBuf(ndm_family, a.data)
         IN  IF c.ok THEN [st EXCEPT !.addr = Some(c.addr)] ELSE Raise(st, c.err)
    ELSE Raise(st, "UnknownAttribute")

\* neighFromRtm: the body of the scan loop
NeighAttr(ndm_family, st, a) ==
    IF a.rta_type = NDA_LLADDR
    THEN LET c == CopyFrom(a.data, SizeofEtherAddr)
         IN  IF c.ok THEN [st EXCEPT !.mac = Some(c.bytes)] ELSE Raise(st, "TooShort")
    ELSE IF a.rta_type = NDA_DST
    THEN LET c == AddrFromBuf(ndm_family, a.data)
         IN  IF c.ok THEN [st EXCEPT !.addr = Some(c.addr)] ELSE Raise(st, c.err)
    ELSE st

\* NeighLoop ending the scan at a record it cannot extract, as if the buffer
\* were empty there.
RECURSIVE NeighLoop_StopAtBadRecord(_, _)
NeighLoop_StopAtBadRecord(ndm_family, st) ==
    IF st.err # "" \/ st.msg = <<>> THEN st
    ELSE LET a == ExtractRtAttr(st.msg)
         IN  IF ~a.ok THEN st
             ELSE NeighLoop_StopAtBadRecord(ndm_family, NeighAttr(ndm_family, Took(st, a), a))

\* neighFromRtm: while (!msg.empty())
RECURSIVE NeighLoop(_, _)
NeighLoop(ndm_family, st) ==
    IF st.err # "" \/ st.msg = <<>> THEN st
    ELSE LET a == ExtractRtAttr(st.msg)
         IN  IF ~a.ok THEN Raise(st, a.err)
             ELSE NeighLoop(ndm_family, NeighAttr(ndm_family, Took(st, a), a))

neighFromRtm(m) ==
    LET x == ExtractRtData(m, SizeofNdmsg)
    IN  IF ~x.ok THEN Failure(x.err, x.rest, <<>>)
        ELSE LET ndm == x.hdr
                 st == NeighLoop(ndm[1],
                           [msg |-> x.rest, seen |-> <<>>, err |-> "",
                            ifidx |-> U32(ndm, 4), state |-> U16(ndm, 8),
                            mac |-> Nullopt, addr |-> Nullopt])
             IN  IF st.err # "" THEN Failure(st.err, st.msg, st.seen)
                 ELSE Result([ifidx |-> st.ifidx, state |-> st.state,
                              mac |-> st.mac, addr |-> st.addr], st)

\* ------------------------------------------------------------ specification
\* One kernel message has arrived; the decoder for its kind has not run yet.
Init ==
    /\ \E k \in Kinds : \E h \in Hdrs(k) : \E n \in 0..MaxAttrs :
         \E rs \in [1..n -> Recs(k)] : \E t \in Tails(n) :
            desc = [kind |-> k, hdr |-> h, recs |-> rs, tail |-> t]
    /\ msg = Encode(desc)
    /\ out = Pending

CallGatewayFromRtm ==
    /\ desc.kind = "route"
    /\ out.status = "pending"
    /\ out' = gatewayFromRtm(msg)
    /\ UNCHANGED <<desc, msg>>

CallAddrFromRtm ==
    /\ desc.kind = "addr"
    /\ out.status = "pending"
    /\ out' = addrFromRtm(msg)
    /\ UNCHANGED <<desc, msg>>

CallNeighFromRtm ==
    /\ desc.kind = "neigh"
    /\ out.status = "pending"
    /\ out' = neighFromRtm(msg)
    /\ UNCHANGED <<desc, msg>>

Next == CallGatewayFromRtm \/ CallAddrFromRtm \/ CallNeighFromRtm

Spec == Init /\ [][Next]_vars

\* ------------------------------------------------------------------ claims
\* What the claims say is stated over desc, the records the message was built
\* from, and compared with out, what the decoder made of the message's bytes.
Decoded == out.status # "pending"
HdrComplete == desc.tail # "hdrshort"
Family == desc.hdr.family
FamilyKnown == Family \in {AF_INET, AF_INET6}
FamWidth == IF Family = AF_INET THEN 4 ELSE 16
DefaultMain == desc.hdr.dst_len = 0 /\ desc.hdr.table = RT_TABLE_MAIN
\* The decoder gets as far as scanning the attributes.
Scans == HdrComplete /\ (desc.kind = "route" => DefaultMain /\ FamilyKnown)
Idx == 1..Len(desc.recs)
HasType(t) == \E i \in Idx : desc.recs[i].type = t
LastOf(t) ==
    desc.recs[CHOOSE i \in Idx :
                 desc.recs[i].type = t /\ \A j \in Idx : j > i => desc.recs[j].type # t]
Twice(t) == \E i, j \in Idx : i < j /\ desc.recs[i].type = t /\ desc.recs[j].type = t
\* The record carries the width its decoder requires.
RightSize(r) ==
    IF r.type = AddrType(desc.kind) THEN FamilyKnown /\ r.len = FamWidth
    ELSE IF desc.kind = "neigh" /\ r.type = NDA_LLADDR THEN r.len >= SizeofEtherAddr
    ELSE IF r.type \in KnownTypes(desc.kind) THEN r.len = 4
    ELSE TRUE
\* Every record is framed and padded, and every known one has its width.
WellFormed == desc.tail = "ok" /\ \A i \in Idx : RightSize(desc.recs[i])
ExpU32(r) == U32(Payload(r.len, r.val), 0)
ExpAddr(r) == <<IF r.len = 4 THEN "V4" ELSE "V6", Payload(r.len, r.val)>>
ExpMac(r) == Take(Payload(r.len, r.val), SizeofEtherAddr)
AttrBytes == EncodeRecs(desc.recs) \o EncodeTail(desc.kind, desc.tail)

\* C1: gatewayFromRtm on a message with a complete fixed header whose table is
\* not RT_TABLE_MAIN or whose dst_len is not 0 ends in "no result", never in a
\* failure, whatever the family and whatever follows the header; the
\* attributes are not scanned (nothing is extracted, nothing consumed).
C1_NonDefaultNoResult ==
    (desc.kind = "route" /\ Decoded /\ HdrComplete /\ ~DefaultMain)
        => /\ out.status = "none"
           /\ out.seen = <<>>
           /\ out.rest = AttrBytes
C1_Witness ==
    /\ desc.kind = "route" /\ Decoded /\ ~DefaultMain
    /\ ~FamilyKnown
    /\ desc.tail = "overrun"
    /\ out.status = "none"

\* C2: gatewayFromRtm on a default-route, main-table message of family AF_INET
\* or AF_INET6 with a well-formed attribute stream returns the pair (interface
\* index, gateway) exactly when the stream has an RTA_OIF and an RTA_GATEWAY,
\* in either order and among any other attributes; otherwise "no result".
C2_PairIffBoth ==
    (desc.kind = "route" /\ Decoded /\ Scans /\ WellFormed)
        => IF HasType(RTA_OIF) /\ HasType(RTA_GATEWAY)
           THEN /\ out.status = "result"
                /\ out.val = [ifidx |-> ExpU32(LastOf(RTA_OIF)),
                              gw |-> ExpAddr(LastOf(RTA_GATEWAY))]
           ELSE out.status = "none"
C2_Witness ==
    /\ desc.kind = "route" /\ Decoded /\ Scans /\ WellFormed
    /\ Len(desc.recs) = 3
    /\ desc.recs[1].type = RTA_GATEWAY
    /\ desc.recs[2].type = UnknownType("route")
    /\ desc.recs[3].type = RTA_OIF
    /\ out.status = "result"

\* C3: addrFromRtm on a message whose attribute stream is well-formed but has
\* no IFA_ADDRESS ends in a failure, never in an AddressInfo, and the failure
\* is raised after the whole stream has been scanned.
C3_MissingAddressFails ==
    (desc.kind = "addr" /\ Decoded /\ ~HasType(IFA_ADDRESS))
        => /\ out.status = "fail"
           /\ WellFormed
                => /\ out.err = "Missing address"
                   /\ out.rest = <<>>
                   /\ Len(out.seen) = Len(desc.recs)
C3_Witness ==
    /\ desc.kind = "addr" /\ Decoded /\ WellFormed
    /\ Len(desc.recs) = 2
    /\ desc.recs[1].type = IFA_FLAGS
    /\ desc.recs[2].type = UnknownType("addr")
    /\ out.status = "fail"

\* C4: on a successful addrFromRtm the flags are the 32-bit value of the
\* IFA_FLAGS attribute when there is one, before or after IFA_ADDRESS, and the
\* 8-bit header flags only when there is none; interface index, scope and
\* prefix length come from the fixed header.
C4_FlagsOverride ==
    (desc.kind = "addr" /\ out.status = "result")
        => /\ out.val.flags =
                 (IF HasType(IFA_FLAGS) THEN ExpU32(LastOf(IFA_FLAGS)) ELSE desc.hdr.flags)
           /\ out.val.ifidx = desc.hdr.index
           /\ out.val.scope = desc.hdr.scope
           /\ out.val.ifaddr.prefixlen = desc.hdr.prefixlen
C4_Witness ==
    /\ desc.kind = "addr" /\ out.status = "result"
    /\ Len(desc.recs) = 2
    /\ desc.recs[1].type = IFA_FLAGS
    /\ desc.recs[2].type = IFA_ADDRESS
    /\ desc.hdr.flags = 128
    /\ out.val.flags # desc.hdr.flags

\* C5: when a recognized attribute type occurs more than once in a well-formed
\* stream, the decoded field holds the value of its last occurrence, in all
\* three decoders.
C5_LastWins ==
    (Decoded /\ WellFormed /\ out.status = "result")
        => CASE desc.kind = "route" ->
                  /\ out.val.ifidx = ExpU32(LastOf(RTA_OIF))
                  /\ out.val.gw = ExpAddr(LastOf(RTA_GATEWAY))
             [] desc.kind = "addr" ->
                  /\ out.val.ifaddr.addr = ExpAddr(LastOf(IFA_ADDRESS))
                  /\ HasType(IFA_FLAGS) => out.val.flags = ExpU32(LastOf(IFA_FLAGS))
             [] desc.kind = "neigh" ->
                  /\ HasType(NDA_LLADDR) => out.val.mac = Some(ExpMac(LastOf(NDA_LLADDR)))
                  /\ HasType(NDA_DST) => out.val.addr = Some(ExpAddr(LastOf(NDA_DST)))
C5_Witness ==
    /\ desc.kind = "route" /\ Decoded /\ WellFormed
    /\ Twice(RTA_OIF)
    /\ desc.recs[1].val # LastOf(RTA_OIF).val
    /\ out.status = "result"
    /\ out.val.ifidx = ExpU32(LastOf(RTA_OIF))

\* C6: records of a type the decoder does not recognize are skipped: a
\* well-formed record of an unrecognized type, of any payload length, inserted
\* before any record of the attribute stream or at its end leaves the outcome
\* (typed result, "no result" or failure) as it was. The message with the
\* record inserted is one of the messages of the model, of at most MaxAttrs
\* records.
InsertAt(rs, i, u) == SubSeq(rs, 1, i) \o <<u>> \o SubSeq(rs, i + 1, Len(rs))
Decode(kind, m) ==
    CASE kind = "route" -> gatewayFromRtm(m)
      [] kind = "addr" -> addrFromRtm(m)
      [] kind = "neigh" -> neighFromRtm(m)
SameOutcome(a, b) ==
    /\ a.status = b.status
    /\ a.err = b.err
    /\ a.status = "result" => a.val = b.val
\* The records of the message, a framing flaw at its end counted as one.
Slots == Len(desc.recs) + (IF desc.tail \in FlawTails THEN 1 ELSE 0)
C6_UnknownSkipped ==
    (Decoded /\ HdrComplete /\ Slots < MaxAttrs)
        => \A i \in 0..Len(desc.recs) : \A u \in UnknownRecs(desc.kind) :
              SameOutcome(
                  Decode(desc.kind, Encode([desc EXCEPT !.recs = InsertAt(@, i, u)])), out)
C6_Witness ==
    /\ desc.kind = "route" /\ out.status = "result"
    /\ Len(desc.recs) = 2
    /\ Slots < MaxAttrs
    /\ LET d == [desc EXCEPT !.recs = InsertAt(@, 1, [type |-> 6, len |-> 6, val |-> 1])]
       IN  gatewayFromRtm(Encode(d)) = [out EXCEPT !.seen = InsertAt(@, 1, <<6, Payload(6, 1)>>)]

\* C7: a header family outside {AF_INET, AF_INET6} is fatal to the decode: for
\* gatewayFromRtm on a default-route main-table message, and for addrFromRtm
\* and neighFromRtm on a message with an address attribute, the outcome is a
\* failure, never a typed result and never "no result".
C7_UnsupportedFamilyFails ==
    (Decoded /\ HdrComplete /\ ~FamilyKnown
       /\ (IF desc.kind = "route" THEN DefaultMain ELSE HasType(AddrType(desc.kind))))
        => out.status = "fail"

\* C8: an address-typed attribute whose payload length is not the width of the
\* header family (4 for AF_INET, 16 for AF_INET6) makes the decode fail:
\* IFA_ADDRESS in addrFromRtm, NDA_DST in neighFromRtm, and RTA_GATEWAY in
\* gatewayFromRtm on a default-route main-table message, with or without an
\* RTA_OIF and whatever else the stream holds; the failure is raised no later
\* than at that attribute.
WrongWidth(i) == desc.recs[i].type = AddrType(desc.kind) /\ desc.recs[i].len # FamWidth
C8_WidthMismatchFails ==
    (Decoded /\ Scans /\ FamilyKnown)
        => \A i \in Idx :
              WrongWidth(i) => out.status = "fail" /\ Len(out.seen) <= i
C8_Witness ==
    /\ desc.kind = "route" /\ Decoded /\ Scans
    /\ Family = AF_INET
    /\ ~HasType(RTA_OIF)
    /\ Len(desc.recs) = 2
    /\ desc.recs[1].type = RTA_GATEWAY /\ desc.recs[1].len = 4
    /\ WrongWidth(2)
    /\ out.status = "fail"

\* C9: a scan never yields a truncated record: a record whose declared length
\* is smaller than the record header or larger than what is left, or a
\* remainder shorter than a record header, makes the decode fail; and on a
\* well-formed stream the scan ends with the buffer empty, having yielded each
\* record once, with its own type and payload, by advancing over each record's
\* length rounded up to a multiple of 4.
C9_ScanExact ==
    (Decoded /\ Scans)
        => /\ desc.tail \in {"garbage", "shortlen", "overrun"}
                => /\ out.status = "fail"
                   /\ Len(out.seen) <= Len(desc.recs)
           /\ WellFormed
                => /\ out.rest = <<>>
                   /\ out.seen =
                        [i \in Idx |-> <<desc.recs[i].type,
                                         Payload(desc.recs[i].len, desc.recs[i].val)>>]
           /\ \A i \in 1..Len(out.seen) :
                 out.seen[i] = <<desc.recs[i].type,
                                 Payload(desc.recs[i].len, desc.recs[i].val)>>
C9_Witness ==
    /\ desc.kind = "neigh" /\ Decoded
    /\ desc.tail = "overrun"
    /\ Len(desc.recs) = 2
    /\ desc.recs[1].len = 6
    /\ RightSize(desc.recs[1]) /\ RightSize(desc.recs[2])
    /\ Len(out.seen) = 2
    /\ out.status = "fail"

\* C10: neighFromRtm on a well-formed message succeeds, with mac present
\* exactly when an NDA_LLADDR occurred and addr present exactly when an NDA_DST
\* occurred (so with both absent when there are no attributes); an NDA_LLADDR
\* payload of 6 or more bytes is accepted and mac is its first 6 bytes, while
\* one shorter than 6 bytes makes the decode fail.
C10_NeighOptional ==
    (desc.kind = "neigh" /\ Decoded /\ HdrComplete)
        => /\ WellFormed
                => /\ out.status = "result"
                   /\ (out.val.mac # Nullopt) <=> HasType(NDA_LLADDR)
                   /\ (out.val.addr # Nullopt) <=> HasType(NDA_DST)
                   /\ HasType(NDA_LLADDR)
                        => out.val.mac = Some(ExpMac(LastOf(NDA_LLADDR)))
           /\ (\E i \in Idx : desc.recs[i].type = NDA_LLADDR
                                /\ desc.recs[i].len < SizeofEtherAddr)
                => out.status = "fail"
C10_Witness ==
    /\ desc.kind = "neigh" /\ out.status = "result"
    /\ Len(desc.recs) = 1
    /\ desc.recs[1].type = NDA_LLADDR
    /\ desc.recs[1].len = 16
    /\ Len(out.val.mac[1]) = 6
    /\ out.val.addr = Nullopt

====
